---- MODULE Spec2Model ----
(***************************************************************************)
(* Content generation pipeline of rag_bot_container_weather:               *)
(*   scripts/generate_talk.py      http_json, main, append_feed,           *)
(*                                 write_latest, extract_tweet             *)
(*   scripts/update_weather_feed.py  rolling upsert (main), _atomic_write  *)
(* The file system is a map from path to content; a run of either script   *)
(* is a process whose position (pc) moves through the statements of the    *)
(* source that read or write a file or issue a request.                    *)
(***************************************************************************)
EXTENDS Integers, Sequences, FiniteSets, TLC

\* ------------------------------------------------------------- bounds
MaxRetries == 2
MaxDate == 3
MaxLimit == 2

\* ------------------------------------------------- program constants
\* HttpCfg.max_time_s
MaxTimeS == 60
\* err_body[:400]
SnippetMax == 400

VARIABLES
  http,     \* one call of http_json: position, loop index, return value or raised error
  files,    \* path -> content of the file at that path
  roll,     \* one run of update_weather_feed.main
  ap,       \* one run of append_feed followed by write_latest
  main,     \* one run of generate_talk.main
  now,      \* the wall clock, in seconds
  hist,     \* history: the dates upserted so far by rolling upserts that all
            \* used one limit ("same"), or that limits differed ("mixed")
  runs,     \* history: the number of runs started
  query,    \* one call of query_rag up to the choice of its chunks
  fin,      \* one pass of a generated text through the post-processor
  topic,    \* calls of pick_topic, and the process-wide random generator
  greet,    \* a local date and hour, and the greeting each prompt fixes for it
  race      \* two runs of update_weather_feed.main at the same time

vars == <<http, files, roll, ap, main, now, hist, runs, query, fin, topic, greet, race>>

\* the scripts' variables and the prompt helpers' variables
scriptVars == <<http, files, roll, ap, main, now, hist, runs, race>>
helperVars == <<query, fin, topic, greet>>

NoCall == [pc |-> "idle"]

\* no helper has been called
HelpersIdle ==
  /\ query = NoCall
  /\ fin = NoCall
  /\ topic = NoCall
  /\ greet = NoCall

Min(a, b) == IF a < b THEN a ELSE b
Max(a, b) == IF a > b THEN a ELSE b

\* ===================================================================
\* http_json (generate_talk.py 83-144)
\* ===================================================================

\* An exception raised inside the try block of one attempt.
\*   kind  the exception class (EmptyBody, NonJSON, NonObject are the
\*         RuntimeErrors raised at lines 107, 112, 114)
\*   msg   str(e); code/blen: HTTPError's status code and body length
NoExc == [kind |-> "None", msg |-> "", code |-> 0, blen |-> 0]

HttpErrors ==
  { [kind |-> "HTTPError", msg |-> "Not Found", code |-> 404, blen |-> 0],
    [kind |-> "HTTPError", msg |-> "Unavailable", code |-> 503, blen |-> SnippetMax + 1] }

Timeouts ==
  { [kind |-> "TimeoutError", msg |-> m, code |-> 0, blen |-> 0] :
      m \in {"timed out", "The read operation timed out"} }

OtherErrors ==
  { [kind |-> "URLError", msg |-> m, code |-> 0, blen |-> 0] :
      m \in {"connection refused", "name not resolved"} }
  \cup
  { [kind |-> "EmptyBody", msg |-> "backend response body is empty", code |-> 0, blen |-> 0],
    [kind |-> "NonJSON", msg |-> "backend returned non-JSON body", code |-> 0, blen |-> 0],
    [kind |-> "NonObject", msg |-> "backend returned non-object JSON", code |-> 0, blen |-> 0] }

Failures == HttpErrors \cup Timeouts \cup OtherErrors

\* A JSON object returned by the backend. A field is "" when the key is
\* absent, not a string, or blank after strip(); otherwise the stripped text.
\* result stands for resp_obj["result"]["answer"].
NoResp == [answer |-> "", text |-> "", output |-> "", result |-> "", tag |-> "none"]

Responses ==
  { [answer |-> "A", text |-> "T", output |-> "", result |-> "", tag |-> "r1"],
    [answer |-> "", text |-> "T", output |-> "O", result |-> "", tag |-> "r2"],
    [answer |-> "", text |-> "", output |-> "O", result |-> "R", tag |-> "r3"],
    [answer |-> "", text |-> "", output |-> "", result |-> "R", tag |-> "r4"],
    [answer |-> "", text |-> "", output |-> "", result |-> "", tag |-> "r5"] }

\* What one attempt meets: a parsed object, or an exception.
Success(obj) == [ok |-> TRUE, exc |-> NoExc, obj |-> obj]
Failed(e) == [ok |-> FALSE, exc |-> e, obj |-> NoResp]

Outcomes == {Success(r) : r \in Responses} \cup {Failed(e) : e \in Failures}

\* The RuntimeError raised to the caller: the text of its message in parts,
\* and __cause__ (raise ... from e).
\*   head    the fixed words the message starts with
\*   code    the status code, reason the reason phrase (HTTPError branch)
\*   snippet the number of body bytes quoted
\*   secs    the timeout quoted (timeout branch)
\*   orig    str(e) embedded in the message ("" when it is not)
NoError ==
  [type |-> "None", head |-> "", code |-> 0, reason |-> "", snippet |-> 0,
   secs |-> 0, orig |-> "", cause |-> NoExc]

\* lines 117-139: the message built in each except clause
WrapErrorGeneric(e) ==
  [type |-> "RuntimeError", head |-> "request failed", code |-> 0, reason |-> "",
   snippet |-> 0, secs |-> 0, orig |-> "", cause |-> NoExc]

WrapError(e) ==
  CASE e.kind = "HTTPError" ->
         [type |-> "RuntimeError", head |-> "HTTPError", code |-> e.code,
          reason |-> e.msg, snippet |-> Min(e.blen, SnippetMax), secs |-> 0,
          orig |-> "", cause |-> e]
    [] e.kind = "TimeoutError" ->
         [type |-> "RuntimeError", head |-> "request timed out after", code |-> 0,
          reason |-> "", snippet |-> 0, secs |-> MaxTimeS, orig |-> "", cause |-> e]
    [] OTHER ->
         [type |-> "RuntimeError", head |-> "request failed", code |-> 0,
          reason |-> "", snippet |-> 0, secs |-> 0, orig |-> e.msg, cause |-> e]

\* line 144: raise RuntimeError("request failed (...)") from last_exc
FallbackError(last_exc) ==
  [type |-> "RuntimeError", head |-> "request failed", code |-> 0, reason |-> "",
   snippet |-> 0, secs |-> 0, orig |-> "", cause |-> last_exc]

\* lines 127, 132, 137: if attempt >= cfg.retries: raise
IsLastAttemptEarly(attempt, retries) == attempt >= retries - 1

IsLastAttempt(attempt, retries) == attempt >= retries

\* line 91: for attempt in range(cfg.retries + 1)
LoopPc(attempt, retries) == IF attempt < retries + 1 THEN "try" ELSE "fallback"

HttpIdle ==
  [pc |-> "idle", retries |-> 0, attempt |-> 0, last_exc |-> NoExc,
   log |-> <<>>, result |-> NoResp, error |-> NoError]

\* Entry of http_json with cfg.retries = R; log records what each attempt met.
HttpEnter(R) ==
  [pc |-> LoopPc(0, R), retries |-> R, attempt |-> 0, last_exc |-> NoExc,
   log |-> <<>>, result |-> NoResp, error |-> NoError]

\* One pass of the loop body (lines 92-139) meeting outcome o.
HttpBody(h, o) ==
  IF o.ok
    THEN [h EXCEPT !.pc = "returned", !.result = o.obj, !.log = Append(@, o)]
    ELSE IF IsLastAttempt(h.attempt, h.retries)
      THEN [h EXCEPT !.pc = "raised", !.last_exc = o.exc,
                     !.error = WrapError(o.exc), !.log = Append(@, o)]
      ELSE [h EXCEPT !.pc = "sleep", !.last_exc = o.exc, !.log = Append(@, o)]

\* A caller invokes http_json.
HttpCall(R) ==
  /\ http.pc \in {"idle", "returned", "raised"}
  /\ http' = HttpEnter(R)

HttpAttempt(o) ==
  /\ http.pc = "try"
  /\ http' = HttpBody(http, o)

\* line 141: time.sleep(cfg.retry_sleep_s), then the next loop index
HttpSleep ==
  /\ http.pc = "sleep"
  /\ http' = [http EXCEPT !.attempt = @ + 1, !.pc = LoopPc(http.attempt + 1, http.retries)]

\* line 144, reached when range(cfg.retries + 1) is empty
HttpFallback ==
  /\ http.pc = "fallback"
  /\ http' = [http EXCEPT !.pc = "raised", !.error = FallbackError(http.last_exc)]

\* ===================================================================
\* Files
\* ===================================================================

\* _resolve_feed_paths (update_weather_feed.py 43-47): two feed targets by
\* default; FEED_PATHS configures the targets of both scripts.
FeedPaths == <<"f1", "f2">>
LatestPath == "latest"
\* the write order of a run: every feed target, then the latest pointer
WritePaths == FeedPaths \o <<LatestPath>>
\* _atomic_write: tmp = path.with_suffix(path.suffix + ".tmp")
TmpOf == [f1 |-> "f1.tmp", f2 |-> "f2.tmp", latest |-> "latest.tmp"]
DestPaths == {WritePaths[i] : i \in 1..Len(WritePaths)}
AllPaths == DestPaths \cup {TmpOf[p] : p \in DestPaths}

Texts == {"a", "b"}

\* One element of a feed's item list. obj = FALSE: a JSON value that is not
\* an object. id = 0: no "id" key; date = 0: no "date" key. text stands for
\* the entry's payload (text and place).
NonObject == [obj |-> FALSE, id |-> 0, date |-> 0, text |-> ""]
Entry(id, date, text) == [obj |-> TRUE, id |-> id, date |-> date, text |-> text]

\* The content at a path.
\*   k      "absent"  no file
\*          "garbage" text json.loads rejects
\*          "torn"    a file opened for writing (truncated) whose data is
\*                    not yet, or only partly, written
\*          "list"    a bare JSON array, items
\*          "obj"     a JSON object; ival says what its "items" key holds:
\*                    "list" (items), "missing" (no such key), "falsy"
\*                    (null, 0, "", false), "other" (a truthy non-list);
\*                    extra: it has other keys; upd: its updated_at
\*          "scalar"  a JSON number, string, boolean or null; truthy
\*          "entry"   one entry object (the latest pointer), e
Content(k, items, ival, extra, upd, truthy, e) ==
  [k |-> k, items |-> items, ival |-> ival, extra |-> extra, upd |-> upd,
   truthy |-> truthy, e |-> e]

Absent == Content("absent", <<>>, "missing", FALSE, 0, FALSE, NonObject)
Garbage == Content("garbage", <<>>, "missing", FALSE, 0, FALSE, NonObject)
Torn == Content("torn", <<>>, "missing", FALSE, 0, FALSE, NonObject)
ListFile(items) == Content("list", items, "missing", FALSE, 0, Len(items) > 0, NonObject)
ObjFile(ival, items, extra, upd) ==
  Content("obj", items, ival, extra, upd, ival # "missing" \/ extra, NonObject)
Scalar(truthy) == Content("scalar", <<>>, "missing", FALSE, 0, truthy, NonObject)
EntryFile(e) == Content("entry", <<>>, "missing", TRUE, 0, TRUE, e)

\* json.loads(path.read_text()) succeeds
Parses(c) == c.k \in {"list", "obj", "scalar", "entry"}

\* The item sequence a reader of the feed sees.
ItemsOf(c) ==
  IF c.k = "list" \/ (c.k = "obj" /\ c.ival = "list") THEN c.items ELSE <<>>

NoFiles == [p \in AllPaths |-> Absent]

\* datetime.date() of the clock: two seconds to the day in this model
DateOf(t) == (t + 1) \div 2

\* ===================================================================
\* update_weather_feed.py: rolling upsert
\* ===================================================================

\* _load_json (17-23) and `if loaded:` (73): the first target whose parsed
\* content is truthy, else the default {"items": []} of line 70.
DefaultFeed == ObjFile("list", <<>>, FALSE, 0)

RECURSIVE FirstLoaded(_, _)
FirstLoaded(fs, i) ==
  IF i > Len(FeedPaths) THEN DefaultFeed
  ELSE IF Parses(fs[FeedPaths[i]]) /\ fs[FeedPaths[i]].truthy
         THEN fs[FeedPaths[i]]
         ELSE FirstLoaded(fs, i + 1)

DropDateNone(items, date) == items

\* line 78: the items whose date differs from args.date
RECURSIVE DropDate(_, _)
DropDate(items, date) ==
  IF items = <<>> THEN <<>>
  ELSE IF Head(items).date = date
         THEN DropDate(Tail(items), date)
         ELSE <<Head(items)>> \o DropDate(Tail(items), date)

\* line 85: items.sort(key=date, reverse=True), a stable sort: x goes behind
\* every item whose date is not smaller
RECURSIVE InsertDesc(_, _)
InsertDesc(sorted, x) ==
  IF sorted = <<>> THEN <<x>>
  ELSE IF Head(sorted).date >= x.date
         THEN <<Head(sorted)>> \o InsertDesc(Tail(sorted), x)
         ELSE <<x>> \o sorted

SortNone(items) == items

RECURSIVE SortDesc(_)
SortDesc(items) ==
  IF items = <<>> THEN <<>>
  ELSE InsertDesc(SortDesc(SubSeq(items, 1, Len(items) - 1)), items[Len(items)])

\* line 86: items[: max(1, args.limit)]
TruncateNoFloor(items, limit) == SubSeq(items, 1, Min(Len(items), limit))

Truncate(items, limit) == SubSeq(items, 1, Min(Len(items), Max(1, limit)))

\* lines 77-78 raise (AttributeError, TypeError) unless the loaded value is
\* an object whose items is a list of objects, or is missing or falsy
RollReadable(feed) ==
  /\ feed.k \in {"obj", "entry"}
  /\ feed.ival # "other"
  /\ \A i \in 1..Len(ItemsOf(feed)) : ItemsOf(feed)[i].obj

\* lines 80-86
RollEntry(date, text) == Entry(0, date, text)

RollItems(feed, date, text, limit) ==
  Truncate(SortDesc(Append(DropDate(ItemsOf(feed), date), RollEntry(date, text))), limit)

\* lines 88-91: the loaded object with items and updated_at set
RollFeed(feed, date, text, limit, clock) ==
  ObjFile("list", RollItems(feed, date, text, limit), TRUE, clock)

NoHist == [runs |-> "none", limit |-> 0, dates |-> {}]

HistAfter(h, date, limit) ==
  IF h.runs = "none" THEN [runs |-> "same", limit |-> limit, dates |-> {date}]
  ELSE IF h.runs = "same" /\ h.limit = limit THEN [h EXCEPT !.dates = @ \cup {date}]
  ELSE [runs |-> "mixed", limit |-> 0, dates |-> {}]

Dates == 1..MaxDate
\* --limit: any integer; 0 stands for every value below 1
Limits == 0..MaxLimit

RollIdle ==
  [pc |-> "idle", date |-> 0, text |-> "", limit |-> 0, feed |-> Absent,
   entry |-> NonObject, i |-> 0, pre |-> NoFiles]

\* What the run writes to WritePaths[i] (lines 93-95).
RollData(r, i) == IF i <= Len(FeedPaths) THEN r.feed ELSE EntryFile(r.entry)

\* lines 64-91: parse the arguments, load, compute; nothing is written yet.
RollStart(date, text, limit) ==
  /\ roll.pc \in {"idle", "done", "failed", "crashed"}
  /\ LET loaded == FirstLoaded(files, 1)
     IN roll' =
          IF RollReadable(loaded)
            THEN [pc |-> "open_tmp", date |-> date, text |-> text, limit |-> limit,
                  feed |-> RollFeed(loaded, date, text, limit, now),
                  entry |-> RollEntry(date, text), i |-> 1, pre |-> files]
            ELSE [pc |-> "failed", date |-> date, text |-> text, limit |-> limit,
                  feed |-> Absent, entry |-> NonObject, i |-> 0, pre |-> files]
  /\ hist' = HistAfter(hist, date, limit)
  /\ UNCHANGED files

\* _atomic_write line 29, tmp.write_text: open() truncates the sibling
RollOpenTmp ==
  /\ roll.pc = "open_tmp"
  /\ files' = [files EXCEPT ![TmpOf[WritePaths[roll.i]]] = Torn]
  /\ roll' = [roll EXCEPT !.pc = "fill_tmp"]

\* line 29: the data reaches the sibling
RollFillTmp ==
  /\ roll.pc = "fill_tmp"
  /\ files' = [files EXCEPT ![TmpOf[WritePaths[roll.i]]] = RollData(roll, roll.i)]
  /\ roll' = [roll EXCEPT !.pc = "rename"]

\* line 30: tmp.replace(path)
RollRename ==
  /\ roll.pc = "rename"
  /\ LET p == WritePaths[roll.i]
     IN files' = [files EXCEPT ![p] = files[TmpOf[p]], ![TmpOf[p]] = Absent]
  /\ roll' = [roll EXCEPT !.i = @ + 1,
                          !.pc = IF roll.i < Len(WritePaths) THEN "open_tmp" ELSE "done"]

\* The process is killed between two steps.
RollCrash ==
  /\ roll.pc \in {"open_tmp", "fill_tmp", "rename"}
  /\ roll' = [roll EXCEPT !.pc = "crashed"]
  /\ UNCHANGED files

\* ===================================================================
\* update_weather_feed.py: two runs at the same time
\* ===================================================================

Racers == {1, 2}

OtherRacer(p) == 3 - p

\* A run, as for roll, with: at, where the file it opened at line 29 is now
\* ("tmp", or "dest" once another run's rename has moved that file over the
\* destination); overlapped, whether the other run was under way at some
\* point of this run; first, whether it started first.
RacerIdle ==
  [pc |-> "idle", date |-> 0, text |-> "", limit |-> 0, feed |-> Absent,
   entry |-> NonObject, i |-> 0, pre |-> NoFiles, at |-> "none",
   overlapped |-> FALSE, first |-> FALSE]

RaceIdle == [p \in Racers |-> RacerIdle]

RacerRunning(r) == r.pc \in {"open_tmp", "fill_tmp", "rename"}

WriteInPlace(path) == path

\* line 28: tmp = path.with_suffix(path.suffix + ".tmp"), the same sibling
\* for every run
WriteTarget(path) == TmpOf[path]

\* lines 64-91 of one run: arguments, load, compute; of the two runs, 1 is
\* the one that starts first
RaceStart(p, date, text, limit) ==
  /\ race[p].pc = "idle"
  /\ p = 2 => race[1].pc # "idle"
  /\ LET loaded == FirstLoaded(files, 1)
         o == OtherRacer(p)
         both == RacerRunning(race[o])
         mine == [pc |-> IF RollReadable(loaded) THEN "open_tmp" ELSE "failed",
                  date |-> date, text |-> text, limit |-> limit,
                  feed |-> IF RollReadable(loaded)
                             THEN RollFeed(loaded, date, text, limit, now)
                             ELSE Absent,
                  entry |-> RollEntry(date, text), i |-> 1, pre |-> files,
                  at |-> "none", overlapped |-> both,
                  first |-> race[o].pc = "idle"]
     IN race' = [race EXCEPT ![p] = mine,
                             ![o].overlapped = @ \/ both]
  /\ UNCHANGED files

\* line 29, tmp.write_text: open() makes the sibling or empties the one
\* that is there
RaceOpenTmp(p) ==
  /\ race[p].pc = "open_tmp"
  /\ files' = [files EXCEPT ![WriteTarget(WritePaths[race[p].i])] = Torn]
  /\ race' = [race EXCEPT ![p].pc = "fill_tmp", ![p].at = "tmp"]

\* line 29: the data is written from the start of the file opened; over
\* what another run has written to that file since, it gives the data or,
\* when the data is the shorter, the data followed by the other's end
RaceFillTmp(p) ==
  /\ race[p].pc = "fill_tmp"
  /\ LET dest == WritePaths[race[p].i]
         path == IF race[p].at = "tmp" THEN WriteTarget(dest) ELSE dest
         data == RollData(race[p], race[p].i)
     IN \E written \in (IF files[path] = Torn THEN {data} ELSE {data, Garbage}) :
          files' = [files EXCEPT ![path] = written]
  /\ race' = [race EXCEPT ![p].pc = "rename"]

\* line 30: tmp.replace(path) moves the sibling, with what it holds, over
\* the destination; FileNotFoundError when another run has moved it already
RaceRename(p) ==
  /\ race[p].pc = "rename"
  /\ LET dest == WritePaths[race[p].i]
         tmp == WriteTarget(dest)
         o == OtherRacer(p)
     IN IF files[tmp] = Absent
          THEN /\ race' = [race EXCEPT ![p].pc = "failed"]
               /\ UNCHANGED files
          ELSE /\ files' = [q \in DOMAIN files |->
                              IF q = dest THEN files[tmp]
                              ELSE IF q = tmp THEN Absent
                              ELSE files[q]]
               /\ race' = [race EXCEPT
                    ![p].i = @ + 1,
                    ![p].pc = IF race[p].i < Len(WritePaths) THEN "open_tmp" ELSE "done",
                    ![o].at = IF race[o].pc = "fill_tmp" /\ race[o].i = race[p].i
                                 /\ race[o].at = "tmp"
                                THEN "dest" ELSE @]

\* a run is killed between two steps
RaceCrash(p) ==
  /\ RacerRunning(race[p])
  /\ race' = [race EXCEPT ![p].pc = "crashed"]
  /\ UNCHANGED files

\* ===================================================================
\* generate_talk.py: append_feed, write_latest
\* ===================================================================

\* build_entry (423-448): the id is the clock to the second, the date its day
TalkEntry(clock, tweet) == Entry(clock, DateOf(clock), tweet)

AppendDataAtEnd(c, entry) ==
  IF Parses(c) /\ c.k = "obj" /\ c.ival # "missing"
    THEN ObjFile("list", (IF c.ival = "list" THEN c.items ELSE <<>>) \o <<entry>>,
                 c.extra, c.upd)
  ELSE IF Parses(c) /\ c.k = "list"
    THEN ListFile(c.items \o <<entry>>)
  ELSE ListFile(<<entry>>)

\* append_feed 457-477: what is written back to a target holding c
AppendData(c, entry) ==
  IF Parses(c) /\ c.k = "obj" /\ c.ival # "missing"
    THEN ObjFile("list", <<entry>> \o (IF c.ival = "list" THEN c.items ELSE <<>>),
                 c.extra, c.upd)
  ELSE IF Parses(c) /\ c.k = "list"
    THEN ListFile(<<entry>> \o c.items)
  ELSE ListFile(<<entry>>)

ApIdle == [pc |-> "idle", entry |-> NonObject, i |-> 0, data |-> Absent, pre |-> NoFiles]

\* append_feed(feed_paths, entry) is entered (line 585)
ApStart(entry) ==
  /\ ap.pc \in {"idle", "done", "crashed"}
  /\ ap' = [pc |-> "read", entry |-> entry, i |-> 1, data |-> Absent, pre |-> files]
  /\ UNCHANGED files

\* lines 457-470: exists(), read_json, the new content of target i
ApRead ==
  /\ ap.pc = "read"
  /\ ap' = [ap EXCEPT !.pc = "open",
                      !.data = AppendData(files[WritePaths[ap.i]], ap.entry)]
  /\ UNCHANGED files

\* write_json line 411, path.write_text: open() truncates the target itself
ApOpen ==
  /\ ap.pc = "open"
  /\ files' = [files EXCEPT ![WritePaths[ap.i]] = Torn]
  /\ ap' = [ap EXCEPT !.pc = "write"]

\* line 411: the data reaches the target; append_feed goes on to its next
\* target or returns, write_latest returns
ApWrite ==
  /\ ap.pc = "write"
  /\ files' = [files EXCEPT ![WritePaths[ap.i]] = ap.data]
  /\ ap' = [ap EXCEPT
              !.i = @ + 1,
              !.pc = IF ap.i < Len(FeedPaths) THEN "read"
                     ELSE IF ap.i = Len(FeedPaths) THEN "appended"
                     ELSE "done",
              !.data = Absent]

\* write_latest(latest_paths, entry) is entered (line 586): the entry is
\* written without reading the file
LatestStart ==
  /\ ap.pc = "appended"
  /\ ap' = [ap EXCEPT !.pc = "open", !.data = EntryFile(ap.entry)]
  /\ UNCHANGED files

\* The process is killed between two steps.
ApCrash ==
  /\ ap.pc \in {"read", "open", "write", "appended"}
  /\ ap' = [ap EXCEPT !.pc = "crashed"]
  /\ UNCHANGED files

\* ===================================================================
\* generate_talk.py: main
\* ===================================================================

\* fetch_weather_snapshot_jma (159-191): what the subprocess gives.
\*   "exit"      non-zero exit status (check=True raises)
\*   "empty"     no output                      (line 184)
\*   "invalid"   output json.loads rejects      (line 188)
\*   "nonobject" JSON that is no object         (line 190)
Snapshots == {"ok", "exit", "empty", "invalid", "nonobject"}

\* extract_tweet (374-390): the first non-blank string among answer, text,
\* output, then result.answer; "" stands for the RuntimeError of line 390
ExtractTweet(r) ==
  IF r.answer # "" THEN r.answer
  ELSE IF r.text # "" THEN r.text
  ELSE IF r.output # "" THEN r.output
  ELSE r.result

ExtractedAlways(tweet) == TRUE

\* extract_tweet returns (does not reach line 390)
Extracted(tweet) == tweet # ""

MainIdle ==
  [pc |-> "idle", retries |-> 0, clock |-> 0, snap |-> "", resp |-> NoResp,
   tweet |-> "", cause |-> "", trace |-> <<>>, pre |-> NoFiles]

MainFailed(m, cause) == [m EXCEPT !.pc = "failed", !.cause = cause]

\* lines 499-538: arguments, now_dt_local, cfg; trace records the steps begun
MainStart(R) ==
  /\ main.pc \in {"idle", "done", "failed"}
  /\ main' = [MainIdle EXCEPT !.pc = "snapshot", !.retries = R, !.clock = now,
                              !.pre = files]
  /\ UNCHANGED <<http, files, ap>>

\* line 542: 1) fetch the weather snapshot, once
MainSnapshot(s) ==
  /\ main.pc = "snapshot"
  /\ main' = IF s = "ok"
               THEN [main EXCEPT !.pc = "status", !.snap = s,
                                 !.trace = Append(@, "snapshot")]
               ELSE [MainFailed(main, "snapshot") EXCEPT
                       !.snap = s, !.trace = Append(@, "snapshot")]
  /\ UNCHANGED <<http, files, ap>>

\* line 545: 2) get_json(status_url, cfg) is called
MainStatus ==
  /\ main.pc = "status"
  /\ http' = HttpEnter(main.retries)
  /\ main' = [main EXCEPT !.pc = "status_call", !.trace = Append(@, "status")]
  /\ UNCHANGED <<files, ap>>

\* line 545: get_json returns or raises
MainStatusDone ==
  /\ main.pc = "status_call"
  /\ http.pc \in {"returned", "raised"}
  /\ main' = IF http.pc = "returned"
               THEN [main EXCEPT !.pc = "build"]
               ELSE MainFailed(main, "status")
  /\ UNCHANGED <<http, files, ap>>

\* lines 549-567: 3) pick_topic, build_question, build_payload
MainBuild ==
  /\ main.pc = "build"
  /\ main' = [main EXCEPT !.pc = "query", !.trace = Append(@, "build")]
  /\ UNCHANGED <<http, files, ap>>

\* line 569: post_json(query_url, payload, cfg) is called
MainQuery ==
  /\ main.pc = "query"
  /\ http' = HttpEnter(main.retries)
  /\ main' = [main EXCEPT !.pc = "query_call", !.trace = Append(@, "query")]
  /\ UNCHANGED <<files, ap>>

\* line 569: post_json returns resp_obj or raises
MainQueryDone ==
  /\ main.pc = "query_call"
  /\ http.pc \in {"returned", "raised"}
  /\ main' = IF http.pc = "returned"
               THEN [main EXCEPT !.pc = "extract", !.resp = http.result]
               ELSE MainFailed(main, "query")
  /\ UNCHANGED <<http, files, ap>>

\* line 570: extract_tweet(resp_obj), once
MainExtract ==
  /\ main.pc = "extract"
  /\ LET tweet == ExtractTweet(main.resp)
     IN main' = IF Extracted(tweet)
                  THEN [main EXCEPT !.pc = "append", !.tweet = tweet,
                                    !.trace = Append(@, "extract")]
                  ELSE [MainFailed(main, "extract") EXCEPT
                          !.trace = Append(@, "extract")]
  /\ UNCHANGED <<http, files, ap>>

\* lines 574-585: 4) build_entry, append_feed(feed_paths, entry)
MainAppend ==
  /\ main.pc = "append"
  /\ ApStart(TalkEntry(main.clock, main.tweet))
  /\ main' = [main EXCEPT !.pc = "append_call", !.trace = Append(@, "append")]
  /\ UNCHANGED http

\* line 586: append_feed has returned, write_latest(latest_paths, entry)
MainLatest ==
  /\ main.pc = "append_call"
  /\ LatestStart
  /\ main' = [main EXCEPT !.pc = "latest_call", !.trace = Append(@, "latest")]
  /\ UNCHANGED http

\* line 588: return 0
MainReturn ==
  /\ main.pc = "latest_call"
  /\ ap.pc = "done"
  /\ main' = [main EXCEPT !.pc = "done"]
  /\ UNCHANGED <<http, files, ap>>

\* ===================================================================
\* backend/app/routers/rag.py: query_rag, the choice of chunks
\* ===================================================================

MaxChunks == 3
MaxWant == 2

\* A chunk the store returns: metadata file and doc_id ("" for a missing or
\* falsy value), pre for the first 40 characters of its text (line 385), its
\* distance.  Two of the shapes have equal keys of different kinds.
ChunkShapes ==
  { [file |-> "A", doc |-> "", pre |-> "C"],
    [file |-> "", doc |-> "A", pre |-> "C"],
    [file |-> "", doc |-> "B", pre |-> "C"],
    [file |-> "", doc |-> "", pre |-> "C"] }

Chunk(sh, d) == [file |-> sh.file, doc |-> sh.doc, pre |-> sh.pre, distance |-> d]

ChunkLists ==
  UNION { [1..n -> { Chunk(sh, d) : sh \in ChunkShapes, d \in 1..MaxChunks }] :
          n \in 0..MaxChunks }

\* line 385: meta.get("file") or meta.get("doc_id") or (c.text or "")[:40]
DedupKey(c) ==
  IF c.file # "" THEN c.file
  ELSE IF c.doc # "" THEN c.doc
  ELSE c.pre

\* the positions of chunks in the order given
InputOrder(chunks) == [p \in 1..Len(chunks) |-> p]

\* line 383: sorted(chunks, key=lambda x: x.distance), as the positions of
\* chunks in sorted order; the sort is stable
SortedByDistance(chunks) ==
  LET Before(j, i) ==
        \/ chunks[j].distance < chunks[i].distance
        \/ chunks[j].distance = chunks[i].distance /\ j < i
      Rank(i) == 1 + Cardinality({ j \in 1..Len(chunks) : Before(j, i) })
  IN [p \in 1..Len(chunks) |-> CHOOSE i \in 1..Len(chunks) : Rank(i) = p]

\* lines 383-391: the loop from position p of the sorted order, with the keys
\* seen and the chunks taken so far
RECURSIVE DiversifyLoop(_, _, _, _, _, _)
DiversifyLoop(chunks, order, want, p, seen, out) ==
  IF p > Len(order) THEN out
  ELSE LET key == DedupKey(chunks[order[p]])
       IN IF key \in seen
            THEN DiversifyLoop(chunks, order, want, p + 1, seen, out)
          ELSE IF Len(out) + 1 >= want
            THEN Append(out, order[p])
          ELSE DiversifyLoop(chunks, order, want, p + 1, seen \cup {key},
                             Append(out, order[p]))

DiversifiedWithRepeats(chunks, want) ==
  SubSeq(SortedByDistance(chunks), 1, Min(want, Len(chunks)))

DiversifiedUnsorted(chunks, want) ==
  DiversifyLoop(chunks, InputOrder(chunks), want, 1, {}, <<>>)

\* lines 380-391: diversified, as positions of chunks
Diversified(chunks, want) ==
  DiversifyLoop(chunks, SortedByDistance(chunks), want, 1, {}, <<>>)

\* chunks[: payload.top_k]
FirstChunks(chunks, want) ==
  SubSeq(InputOrder(chunks), 1, Min(want, Len(chunks)))

\* line 392: chunks = diversified or chunks[: payload.top_k]
ChosenChunks(chunks, want) ==
  LET d == Diversified(chunks, want)
  IN IF d # <<>> THEN d ELSE FirstChunks(chunks, want)

\* query_rag is called with output_style tweet_bot, the store has answered
QueryCalled(chunks, want) ==
  [pc |-> "called", chunks |-> chunks, want |-> want, out |-> <<>>]

\* lines 379-392
QueryChoose ==
  /\ query.pc = "called"
  /\ query' = [query EXCEPT !.pc = "chosen",
                            !.out = ChosenChunks(query.chunks, query.want)]

\* ===================================================================
\* The greeting rules of the two prompts
\* ===================================================================

\* the local dates <<month, day>> of a leap year, and the local hours
MonthDays ==
  { md \in (1..12) \X (1..31) :
      md[2] <= (IF md[1] = 2 THEN 29
                ELSE IF md[1] \in {4, 6, 9, 11} THEN 30 ELSE 31) }

Hours == 0..23

\* rag.py 251-264, the system prompt of the tweet_bot style: the holiday
\* override by date, otherwise one greeting by local hour
BackendGreeting(md, hour) ==
  IF md = <<12, 24>> THEN "Merry Christmas Eve"
  ELSE IF md = <<12, 25>> THEN "Merry Christmas"
  ELSE IF md = <<12, 31>> THEN "Happy New Year's Eve"
  ELSE IF md[1] = 1 /\ md[2] \in 1..4 THEN "Happy New Year"
  ELSE IF hour \in 5..10 THEN "Good morning"
  ELSE IF hour \in 11..16 THEN "Good afternoon"
  ELSE IF hour \in 17..21 THEN "Good evening"
  ELSE "Good night"

\* generate_talk.py 295-300, the question: morning(05-10), midday(11-15),
\* evening(16-21), night(22-04); Dec 31 and Jan 1 styles; otherwise normal
QuestionGreeting(md, hour) ==
  IF md = <<12, 31>> THEN "New Year's Eve"
  ELSE IF md = <<1, 1>> THEN "New Year's Day"
  ELSE IF hour \in 5..10 THEN "morning"
  ELSE IF hour \in 11..15 THEN "midday"
  ELSE IF hour \in 16..21 THEN "evening"
  ELSE "night"

GreetAsked(md, hour) ==
  [pc |-> "asked", md |-> md, hour |-> hour, backend |-> "", question |-> ""]

\* build_question writes its rules into the question
GreetQuestion ==
  /\ greet.pc = "asked"
  /\ greet.question = ""
  /\ greet' = [greet EXCEPT !.question = QuestionGreeting(greet.md, greet.hour)]

\* _build_chat_prompts writes its rules into the system prompt
GreetBackend ==
  /\ greet.pc = "asked"
  /\ greet.backend = ""
  /\ greet' = [greet EXCEPT !.backend = BackendGreeting(greet.md, greet.hour)]

\* ===================================================================
\* generate_talk.py: pick_topic
\* ===================================================================

MaxDay == 2

\* TOPIC_FAMILIES (198-207), TOPIC_MODES (209-214)
TopicFamilies ==
  <<"season", "food", "culture", "history", "nature", "tips", "events", "running">>

TopicModes == <<"fact", "question", "mini_story", "recommendation">>

\* a local datetime: the date as a day number, the hour, the minute
LocalTimes == [day : 1..MaxDay, hour : Hours, minute : {0, 30}]

StableMinuteSeed(at) == <<at.day, at.hour, at.minute>>

\* _stable_hour_seed (217-221): the digest of strftime("%Y-%m-%dT%H"), one
\* value for each date and hour
StableHourSeed(at) == <<at.day, at.hour>>

\* the hours of the conditions of lines 236, 238, 240, and those left to the
\* else of line 242
TopicBands ==
  <<5..10, 11..15, 16..21, Hours \ ((5..10) \cup (11..15) \cup (16..21))>>

FamiliesWithoutRunning(hour) ==
  IF hour \in TopicBands[1]
    THEN <<"tips", "tips", "food", "season", "nature", "culture", "history", "events">>
    ELSE TopicFamilies

\* lines 235-243: families, by the hour
FamiliesAt(hour) ==
  IF hour >= 5 /\ hour <= 10
    THEN <<"tips", "running", "food", "season", "nature", "culture", "history", "events">>
  ELSE IF hour >= 11 /\ hour <= 15
    THEN <<"food", "culture", "history", "events", "season", "nature", "tips", "running">>
  ELSE IF hour >= 16 /\ hour <= 21
    THEN <<"events", "culture", "food", "history", "season", "nature", "tips", "running">>
  ELSE <<"season", "history", "culture", "nature", "tips", "food", "events", "running">>

\* lines 247-250: modes, by the family chosen
ModesFor(family) ==
  IF family \in {"tips", "recommendation"}
    THEN <<"recommendation", "fact", "question", "mini_story">>
    ELSE TopicModes

\* rng.choice(seq), r being what the generator gives below Len(seq)
Choice(seq, r) == seq[r + 1]

\* What random.Random(seed) gives to the two calls of choice: a number below
\* 8, then a number below 4.  It is a function of the seed; gen holds the
\* seed and the numbers of the generator made last, the clock never going
\* back to an earlier hour.
Draws == (0..7) \X (0..3)

NoPick == [at |-> [day |-> 0, hour |-> 0, minute |-> 0],
           families |-> <<>>, modes |-> <<>>, family |-> "", mode |-> ""]

TopicAt(at) ==
  [pc |-> "idle", at |-> at, ticked |-> FALSE, gen |-> [seed |-> <<>>, draws |-> <<0, 0>>],
   prev |-> NoPick, last |-> NoPick]

\* pick_topic (224-250) at the local time of the clock, draws being what
\* its generator gives
PickTopic(snap, draws) ==
  /\ topic.pc \in {"idle", "once"}
  /\ LET seed == StableHourSeed(topic.at)
         families == FamiliesAt(topic.at.hour)
         family == Choice(families, draws[1])
         modes == ModesFor(family)
     IN /\ topic.gen.seed = seed => draws = topic.gen.draws
        /\ topic' = [topic EXCEPT
                       !.pc = IF topic.pc = "idle" THEN "once" ELSE "twice",
                       !.ticked = FALSE,
                       !.gen = [seed |-> seed, draws |-> draws],
                       !.prev = topic.last,
                       !.last = [at |-> topic.at, families |-> families,
                                 modes |-> modes, family |-> family,
                                 mode |-> Choice(modes, draws[2])]]

\* time passes between two calls: to a later minute of the hour
MinutePasses ==
  /\ topic.pc = "once" /\ ~topic.ticked
  /\ topic.at.minute = 0
  /\ topic' = [topic EXCEPT !.at.minute = 30, !.ticked = TRUE]

\* to the next hour of the day
HourPasses ==
  /\ topic.pc = "once" /\ ~topic.ticked
  /\ topic.at.hour < 23
  /\ topic' = [topic EXCEPT !.at.hour = @ + 1, !.at.minute = 0, !.ticked = TRUE]

\* to the same time of the next day
DayPasses ==
  /\ topic.pc = "once" /\ ~topic.ticked
  /\ topic.at.day < MaxDay
  /\ topic' = [topic EXCEPT !.at.day = @ + 1, !.ticked = TRUE]

\* ===================================================================
\* backend/app/routers/rag.py: the post-processor of the generated text
\* ===================================================================

MaxPlain == 5
MaxQuoted == 4
MaxChars == 4

\* A text is a sequence of characters: a letter, the space, the newline,
\* the straight, curly and backtick quotes, the ellipsis.
GivenTexts ==
  UNION { [1..k -> {"a", " ", "\n"}] : k \in 0..MaxPlain } \cup
  UNION { [1..k -> {"a", " ", "dq", "sq", "ldq", "rdq"}] : k \in 0..MaxQuoted }

Ellipsis == "el"

\* what str.split() and str.strip() take for whitespace
IsSpace(c) == c \in {" ", "\n"}

RECURSIVE LStrip(_)
LStrip(t) == IF t # <<>> /\ IsSpace(Head(t)) THEN LStrip(Tail(t)) ELSE t

RECURSIVE RStrip(_)
RStrip(t) ==
  IF t # <<>> /\ IsSpace(t[Len(t)]) THEN RStrip(SubSeq(t, 1, Len(t) - 1)) ELSE t

\* str.strip()
Strip(t) == LStrip(RStrip(t))

\* " ".join(text.split()): every run of whitespace inside becomes one space
RECURSIVE JoinWords(_)
JoinWords(t) ==
  IF t = <<>> THEN <<>>
  ELSE IF IsSpace(Head(t))
    THEN LET rest == LStrip(t)
         IN IF rest = <<>> THEN <<>> ELSE <<" ">> \o JoinWords(rest)
  ELSE <<Head(t)>> \o JoinWords(Tail(t))

\* _clean_single_line (194-195)
CleanSingleLine(text) == JoinWords(Strip(text))

\* pairs (200-206)
QuotePairs ==
  << <<"dq", "dq">>, <<"sq", "sq">>, <<"ldq", "rdq">>, <<"lsq", "rsq">>, <<"bt", "bt">> >>

Wrapped(t, pair) == Len(t) >= 2 /\ t[1] = pair[1] /\ t[Len(t)] = pair[2]

\* lines 207-209: the loop over pairs from the i-th on
RECURSIVE StripPairs(_, _)
StripPairs(t, i) ==
  IF i > Len(QuotePairs) THEN t
  ELSE IF Wrapped(t, QuotePairs[i])
    THEN StripPairs(Strip(SubSeq(t, 2, Len(t) - 1)), i + 1)
  ELSE StripPairs(t, i + 1)

\* _strip_wrapping_quotes (198-210)
StripWrappingQuotes(text) == StripPairs(Strip(text), 1)

\* the places of the space character in t
SpacesIn(t) == { i \in 1..Len(t) : t[i] = " " }

EnforceCutAtMax(text, max_chars) ==
  IF max_chars <= 0 \/ Len(text) <= max_chars THEN text
  ELSE LET cut == SubSeq(text, 1, max_chars)
           head == IF SpacesIn(cut) # {}
                     THEN SubSeq(cut, 1, Max(0, CHOOSE i \in SpacesIn(cut) :
                                               \A j \in SpacesIn(cut) : j <= i) - 1)
                     ELSE cut
       IN RStrip(head) \o <<Ellipsis>>

\* _enforce_max_chars (213-219); rsplit(" ", 1)[0] is what comes before the
\* last space
EnforceMaxChars(text, max_chars) ==
  IF max_chars <= 0 \/ Len(text) <= max_chars THEN text
  ELSE LET cut == SubSeq(text, 1, max_chars - 1)
           head == IF SpacesIn(cut) # {}
                     THEN SubSeq(cut, 1, (CHOOSE i \in SpacesIn(cut) :
                                            \A j \in SpacesIn(cut) : j <= i) - 1)
                     ELSE cut
       IN RStrip(head) \o <<Ellipsis>>

\* the post-processor: whitespace collapse, quote strip, length enforcement
Finalize(text, max_chars) ==
  EnforceMaxChars(StripWrappingQuotes(CleanSingleLine(text)), max_chars)

FinGiven(text, max_chars) ==
  [pc |-> "given", text |-> text, max |-> max_chars, enforced |-> <<>>,
   stripped |-> <<>>, final |-> <<>>, again |-> <<>>]

\* _enforce_max_chars(text, max_chars)
FinEnforce ==
  /\ fin.pc = "given"
  /\ fin' = [fin EXCEPT !.pc = "enforced",
                        !.enforced = EnforceMaxChars(fin.text, fin.max)]

\* _strip_wrapping_quotes(text)
FinStrip ==
  /\ fin.pc = "enforced"
  /\ fin' = [fin EXCEPT !.pc = "stripped",
                        !.stripped = StripWrappingQuotes(fin.text)]

\* the three steps on the text given
FinFinalize ==
  /\ fin.pc = "stripped"
  /\ fin' = [fin EXCEPT !.pc = "finalized",
                        !.final = Finalize(fin.text, fin.max)]

\* the three steps on their own result
FinAgain ==
  /\ fin.pc = "finalized"
  /\ fin' = [fin EXCEPT !.pc = "again",
                        !.again = Finalize(fin.final, fin.max)]

\* ===================================================================
\* The clock
\* ===================================================================
MaxClock == 2

Tick ==
  /\ now < MaxClock
  /\ now' = now + 1

InitHttp ==
  /\ http = HttpIdle
  /\ files = NoFiles
  /\ roll = RollIdle
  /\ ap = ApIdle
  /\ main = MainIdle
  /\ now = 1
  /\ hist = NoHist
  /\ runs = 0
  /\ HelpersIdle
  /\ race = RaceIdle

NextHttp ==
  \/ /\ \E R \in -1..MaxRetries : HttpCall(R)
     /\ UNCHANGED <<files, roll, ap, main, now, hist, runs>>
     /\ UNCHANGED <<helperVars, race>>
  \/ /\ \E o \in Outcomes : HttpAttempt(o)
     /\ UNCHANGED <<files, roll, ap, main, now, hist, runs>>
     /\ UNCHANGED <<helperVars, race>>
  \/ /\ HttpSleep
     /\ UNCHANGED <<files, roll, ap, main, now, hist, runs>>
     /\ UNCHANGED <<helperVars, race>>
  \/ /\ HttpFallback
     /\ UNCHANGED <<files, roll, ap, main, now, hist, runs>>
     /\ UNCHANGED <<helperVars, race>>

SpecHttp == InitHttp /\ [][NextHttp]_vars

\* Rolling upserts, one after the other, from no feed at all.
InitRoll ==
  /\ http = HttpIdle
  /\ files = NoFiles
  /\ roll = RollIdle
  /\ ap = ApIdle
  /\ main = MainIdle
  /\ now = 1
  /\ hist = NoHist
  /\ runs = 0
  /\ HelpersIdle
  /\ race = RaceIdle

NextRoll ==
  \/ /\ \E d \in Dates, t \in Texts, l \in Limits : RollStart(d, t, l)
     /\ UNCHANGED <<http, ap, main, now, runs>>
     /\ UNCHANGED <<helperVars, race>>
  \/ /\ RollOpenTmp
     /\ UNCHANGED <<http, ap, main, now, hist, runs>>
     /\ UNCHANGED <<helperVars, race>>
  \/ /\ RollFillTmp
     /\ UNCHANGED <<http, ap, main, now, hist, runs>>
     /\ UNCHANGED <<helperVars, race>>
  \/ /\ RollRename
     /\ UNCHANGED <<http, ap, main, now, hist, runs>>
     /\ UNCHANGED <<helperVars, race>>

SpecRoll == InitRoll /\ [][NextRoll]_vars

\* ===================================================================
\* The feed store: runs of both scripts, one at a time, on the same targets
\* (FEED_PATHS), starting from files of any shape; a run may be killed.
\* ===================================================================
MaxRuns == 2

OldEntry == Entry(1, 1, "a")

\* what the first target may hold at the start
InitFeeds ==
  { Absent, Garbage, Scalar(TRUE), Scalar(FALSE),
    ListFile(<<>>), ListFile(<<OldEntry>>), ListFile(<<NonObject>>),
    ObjFile("missing", <<>>, FALSE, 0), ObjFile("missing", <<>>, TRUE, 0),
    ObjFile("falsy", <<>>, FALSE, 0), ObjFile("other", <<>>, FALSE, 0),
    ObjFile("list", <<OldEntry>>, TRUE, 1), ObjFile("list", <<NonObject>>, FALSE, 0) }

\* what the second target may hold at the start
InitMirrors == { ListFile(<<OldEntry>>), ObjFile("list", <<OldEntry>>, TRUE, 1) }

\* the targets at the start: any shape at the first with no second yet, or
\* two feeds
InitTargets ==
  { <<a, Absent>> : a \in InitFeeds } \cup
  { <<a, b>> : a \in {ListFile(<<OldEntry>>), Garbage}, b \in InitMirrors }

\* the arguments of a rolling upsert run by the feed store's schedule:
\* today's date and one configured limit
StoreLimits == {MaxLimit}

InitStore ==
  /\ http = HttpIdle
  /\ \E ab \in InitTargets :
       files = [NoFiles EXCEPT ![FeedPaths[1]] = ab[1], ![FeedPaths[2]] = ab[2]]
  /\ roll = RollIdle
  /\ ap = ApIdle
  /\ main = MainIdle
  /\ now = 1
  /\ hist = NoHist
  /\ runs = 0
  /\ HelpersIdle
  /\ race = RaceIdle

RollAtRest == roll.pc \in {"idle", "done", "failed", "crashed"}
ApAtRest == ap.pc \in {"idle", "done", "crashed"}

NextStore ==
  \/ /\ runs < MaxRuns /\ ApAtRest
     /\ \E t \in Texts, l \in StoreLimits : RollStart(DateOf(now), t, l)
     /\ ap' = ApIdle
     /\ runs' = runs + 1
     /\ UNCHANGED <<http, main, now>>
     /\ UNCHANGED <<helperVars, race>>
  \/ /\ RollOpenTmp
     /\ UNCHANGED <<http, ap, main, now, hist, runs>>
     /\ UNCHANGED <<helperVars, race>>
  \/ /\ RollFillTmp
     /\ UNCHANGED <<http, ap, main, now, hist, runs>>
     /\ UNCHANGED <<helperVars, race>>
  \/ /\ RollRename
     /\ UNCHANGED <<http, ap, main, now, hist, runs>>
     /\ UNCHANGED <<helperVars, race>>
  \/ /\ RollCrash
     /\ UNCHANGED <<http, ap, main, now, hist, runs>>
     /\ UNCHANGED <<helperVars, race>>
  \/ /\ runs < MaxRuns /\ RollAtRest
     /\ \E t \in Texts : ApStart(TalkEntry(now, t))
     /\ roll' = RollIdle
     /\ runs' = runs + 1
     /\ UNCHANGED <<http, main, now, hist>>
     /\ UNCHANGED <<helperVars, race>>
  \/ /\ ApRead
     /\ UNCHANGED <<http, roll, main, now, hist, runs>>
     /\ UNCHANGED <<helperVars, race>>
  \/ /\ ApOpen
     /\ UNCHANGED <<http, roll, main, now, hist, runs>>
     /\ UNCHANGED <<helperVars, race>>
  \/ /\ ApWrite
     /\ UNCHANGED <<http, roll, main, now, hist, runs>>
     /\ UNCHANGED <<helperVars, race>>
  \/ /\ LatestStart
     /\ UNCHANGED <<http, roll, main, now, hist, runs>>
     /\ UNCHANGED <<helperVars, race>>
  \/ /\ ApCrash
     /\ UNCHANGED <<http, roll, main, now, hist, runs>>
     /\ UNCHANGED <<helperVars, race>>
  \/ /\ Tick
     /\ RollAtRest /\ ApAtRest
     /\ UNCHANGED <<http, files, roll, ap, main, hist, runs>>
     /\ UNCHANGED <<helperVars, race>>

SpecStore == InitStore /\ [][NextStore]_vars

\* ===================================================================
\* Runs of generate_talk.main, one after the other
\* ===================================================================

\* what an attempt of a request of the pipeline meets
PipeOutcomes ==
  {Success(r) : r \in Responses} \cup
  {Failed(e) : e \in {x \in Failures : x.msg \in {"timed out", "Not Found"}}}

\* the targets at the start
PipeTargets == { <<Absent, Absent>>, <<ObjFile("list", <<OldEntry>>, TRUE, 1), Garbage>> }

InitPipe ==
  /\ http = HttpIdle
  /\ \E ab \in PipeTargets :
       files = [NoFiles EXCEPT ![FeedPaths[1]] = ab[1], ![FeedPaths[2]] = ab[2]]
  /\ roll = RollIdle
  /\ ap = ApIdle
  /\ main = MainIdle
  /\ now = 1
  /\ hist = NoHist
  /\ runs = 0
  /\ HelpersIdle
  /\ race = RaceIdle

NextPipe ==
  \/ /\ runs < MaxRuns
     /\ \E R \in -1..MaxRetries : MainStart(R)
     /\ runs' = runs + 1
     /\ UNCHANGED <<roll, now, hist>>
     /\ UNCHANGED <<helperVars, race>>
  \/ /\ \E s \in Snapshots : MainSnapshot(s)
     /\ UNCHANGED <<roll, now, hist, runs>>
     /\ UNCHANGED <<helperVars, race>>
  \/ /\ MainStatus
     /\ UNCHANGED <<roll, now, hist, runs>>
     /\ UNCHANGED <<helperVars, race>>
  \/ /\ MainStatusDone
     /\ UNCHANGED <<roll, now, hist, runs>>
     /\ UNCHANGED <<helperVars, race>>
  \/ /\ MainBuild
     /\ UNCHANGED <<roll, now, hist, runs>>
     /\ UNCHANGED <<helperVars, race>>
  \/ /\ MainQuery
     /\ UNCHANGED <<roll, now, hist, runs>>
     /\ UNCHANGED <<helperVars, race>>
  \/ /\ MainQueryDone
     /\ UNCHANGED <<roll, now, hist, runs>>
     /\ UNCHANGED <<helperVars, race>>
  \/ /\ MainExtract
     /\ UNCHANGED <<roll, now, hist, runs>>
     /\ UNCHANGED <<helperVars, race>>
  \/ /\ MainAppend
     /\ UNCHANGED <<roll, now, hist, runs>>
     /\ UNCHANGED <<helperVars, race>>
  \/ /\ MainLatest
     /\ UNCHANGED <<roll, now, hist, runs>>
     /\ UNCHANGED <<helperVars, race>>
  \/ /\ MainReturn
     /\ UNCHANGED <<roll, now, hist, runs>>
     /\ UNCHANGED <<helperVars, race>>
  \/ /\ \E o \in PipeOutcomes : HttpAttempt(o)
     /\ UNCHANGED <<files, roll, ap, main, now, hist, runs>>
     /\ UNCHANGED <<helperVars, race>>
  \/ /\ HttpSleep
     /\ UNCHANGED <<files, roll, ap, main, now, hist, runs>>
     /\ UNCHANGED <<helperVars, race>>
  \/ /\ HttpFallback
     /\ UNCHANGED <<files, roll, ap, main, now, hist, runs>>
     /\ UNCHANGED <<helperVars, race>>
  \/ /\ ApRead
     /\ UNCHANGED <<http, roll, main, now, hist, runs>>
     /\ UNCHANGED <<helperVars, race>>
  \/ /\ ApOpen
     /\ UNCHANGED <<http, roll, main, now, hist, runs>>
     /\ UNCHANGED <<helperVars, race>>
  \/ /\ ApWrite
     /\ UNCHANGED <<http, roll, main, now, hist, runs>>
     /\ UNCHANGED <<helperVars, race>>
  \/ /\ Tick
     /\ main.pc \in {"idle", "done", "failed"}
     /\ UNCHANGED <<http, files, roll, ap, main, hist, runs>>
     /\ UNCHANGED <<helperVars, race>>

SpecPipe == InitPipe /\ [][NextPipe]_vars

\* ===================================================================
\* Calls of query_rag, one for each answer of the store
\* ===================================================================

ScriptsIdle ==
  /\ race = RaceIdle
  /\ http = HttpIdle
  /\ files = NoFiles
  /\ roll = RollIdle
  /\ ap = ApIdle
  /\ main = MainIdle
  /\ now = 1
  /\ hist = NoHist
  /\ runs = 0

InitQuery ==
  /\ ScriptsIdle
  /\ \E chunks \in ChunkLists, want \in 1..MaxWant :
       query = QueryCalled(chunks, want)
  /\ fin = NoCall
  /\ topic = NoCall
  /\ greet = NoCall

NextQuery ==
  /\ QueryChoose
  /\ UNCHANGED <<scriptVars, fin, topic, greet>>

SpecQuery == InitQuery /\ [][NextQuery]_vars

\* ===================================================================
\* The prompts of one run, for each local date and hour
\* ===================================================================

InitGreet ==
  /\ ScriptsIdle
  /\ query = NoCall
  /\ fin = NoCall
  /\ topic = NoCall
  /\ \E md \in MonthDays, hour \in Hours : greet = GreetAsked(md, hour)

NextGreet ==
  \/ /\ GreetQuestion
     /\ UNCHANGED <<scriptVars, query, fin, topic>>
  \/ /\ GreetBackend
     /\ UNCHANGED <<scriptVars, query, fin, topic>>

SpecGreet == InitGreet /\ [][NextGreet]_vars

\* ===================================================================
\* Two calls of pick_topic
\* ===================================================================

InitTopic ==
  /\ ScriptsIdle
  /\ query = NoCall
  /\ fin = NoCall
  /\ \E at \in LocalTimes : topic = TopicAt(at)
  /\ greet = NoCall

NextTopic ==
  \/ /\ \E snap \in {"sunny", "rain"}, draws \in Draws : PickTopic(snap, draws)
     /\ UNCHANGED <<scriptVars, query, fin, greet>>
  \/ /\ MinutePasses
     /\ UNCHANGED <<scriptVars, query, fin, greet>>
  \/ /\ HourPasses
     /\ UNCHANGED <<scriptVars, query, fin, greet>>
  \/ /\ DayPasses
     /\ UNCHANGED <<scriptVars, query, fin, greet>>

SpecTopic == InitTopic /\ [][NextTopic]_vars

\* ===================================================================
\* The post-processor on each text and limit
\* ===================================================================

InitFin ==
  /\ ScriptsIdle
  /\ query = NoCall
  /\ \E text \in GivenTexts, max_chars \in -1..MaxChars :
       fin = FinGiven(text, max_chars)
  /\ topic = NoCall
  /\ greet = NoCall

NextFin ==
  \/ /\ FinEnforce
     /\ UNCHANGED <<scriptVars, query, topic, greet>>
  \/ /\ FinStrip
     /\ UNCHANGED <<scriptVars, query, topic, greet>>
  \/ /\ FinFinalize
     /\ UNCHANGED <<scriptVars, query, topic, greet>>
  \/ /\ FinAgain
     /\ UNCHANGED <<scriptVars, query, topic, greet>>

SpecFin == InitFin /\ [][NextFin]_vars

\* ===================================================================
\* Two runs of update_weather_feed.main, in any interleaving
\* ===================================================================

InitRace ==
  /\ http = HttpIdle
  /\ \E c \in { Absent, ObjFile("list", <<OldEntry>>, TRUE, 1) } :
       files = [NoFiles EXCEPT ![FeedPaths[1]] = c, ![FeedPaths[2]] = c]
  /\ roll = RollIdle
  /\ ap = ApIdle
  /\ main = MainIdle
  /\ now = 1
  /\ hist = NoHist
  /\ runs = 0
  /\ HelpersIdle
  /\ race = RaceIdle

NextRace ==
  \/ /\ \E p \in Racers, d \in Dates, l \in {1, MaxLimit} :
          RaceStart(p, d, <<"a", "b">>[p], l)
     /\ UNCHANGED <<http, roll, ap, main, now, hist, runs, helperVars>>
  \/ /\ \E p \in Racers : RaceOpenTmp(p)
     /\ UNCHANGED <<http, roll, ap, main, now, hist, runs, helperVars>>
  \/ /\ \E p \in Racers : RaceFillTmp(p)
     /\ UNCHANGED <<http, roll, ap, main, now, hist, runs, helperVars>>
  \/ /\ \E p \in Racers : RaceRename(p)
     /\ UNCHANGED <<http, roll, ap, main, now, hist, runs, helperVars>>
  \/ /\ \E p \in Racers : RaceCrash(p)
     /\ UNCHANGED <<http, roll, ap, main, now, hist, runs, helperVars>>

SpecRace == InitRace /\ [][NextRace]_vars

\* ------------------------------------------------------------------
\* Claims about http_json
\* ------------------------------------------------------------------
Last(s) == s[Len(s)]

\* C1: with retries = R >= 0 the attempts are issued one after another, at
\* most R+1 of them; the call stops at the first attempt that succeeds and
\* returns that attempt's object; it raises only after exactly R+1 failed
\* attempts, and R+1 failed attempts always end in the raise.
C1_BoundedRetries ==
  http.retries >= 0 =>
    /\ Len(http.log) <= http.retries + 1
    /\ \A i \in 1..(Len(http.log) - 1) : ~http.log[i].ok
    /\ http.pc = "returned" <=> (Len(http.log) >= 1 /\ Last(http.log).ok)
    /\ http.pc = "returned" =>
         /\ http.result = Last(http.log).obj
         /\ http.error = NoError
    /\ http.pc = "raised" <=>
         (Len(http.log) = http.retries + 1 /\ ~Last(http.log).ok)
    /\ http.pc = "raised" => http.result = NoResp
    /\ http.pc \in {"try", "sleep"} => Len(http.log) = http.attempt + (IF http.pc = "sleep" THEN 1 ELSE 0)
    /\ http.pc # "fallback"

\* R = 2, attempts 1 and 2 fail, attempt 3 succeeds: returned after 3 attempts.
C1_Witness ==
  /\ http.pc = "returned"
  /\ http.retries = 2
  /\ Len(http.log) = 3
  /\ http.result \in Responses

\* str(e) of the attempt's exception can be read back from the raised message.
MessagePreserved(err, e) ==
  IF e.kind = "HTTPError"
    THEN err.code = e.code /\ err.reason = e.msg
    ELSE err.orig = e.msg

\* C2 as stated: when all attempts fail, the raised error is the final
\* attempt's error with its kind and message preserved, and no result is
\* returned.
C2_LastErrorVerbatim ==
  (http.pc = "raised" /\ http.retries >= 0) =>
    /\ http.error.cause = Last(http.log).exc
    /\ MessagePreserved(http.error, Last(http.log).exc)
    /\ http.result = NoResp

\* C2 amended: the raised error is a RuntimeError chained to the final
\* attempt's exception (never an earlier one, never the fallback of line
\* 144); its message carries code, reason and at most 400 body bytes for an
\* HTTPError, str(e) for any other exception but a TimeoutError, whose own
\* message is replaced by the configured timeout.
C2_LastErrorSurfaced ==
  /\ (http.pc = "raised" /\ http.retries >= 0) =>
       LET e == Last(http.log).exc
           err == http.error
       IN /\ err.type = "RuntimeError"
          /\ err.cause = e
          /\ http.result = NoResp
          /\ e.kind = "HTTPError" =>
               /\ err.head = "HTTPError"
               /\ err.code = e.code /\ err.reason = e.msg
               /\ err.snippet = Min(e.blen, SnippetMax)
          /\ e.kind = "TimeoutError" =>
               /\ err.head = "request timed out after"
               /\ err.secs = MaxTimeS
               /\ err.orig = ""
          /\ e.kind \notin {"HTTPError", "TimeoutError"} =>
               /\ err.head = "request failed"
               /\ err.orig = e.msg
  /\ http.pc = "returned" => Last(http.log).ok

\* Three failed attempts, the last a timeout, the first a different error.
C2_Witness ==
  /\ http.pc = "raised"
  /\ Len(http.log) = 3
  /\ http.log[3].exc.kind = "TimeoutError"
  /\ http.log[1].exc.kind = "HTTPError"
  /\ http.error.cause = http.log[3].exc

\* ------------------------------------------------------------------
\* Claims about the rolling upsert
\* ------------------------------------------------------------------
FeedItems(fs, k) == ItemsOf(fs[FeedPaths[k]])

HasDate(items, d) == \E i \in 1..Len(items) : items[i].date = d

NoDupDates(items) ==
  \A i, j \in 1..Len(items) : items[i].date = items[j].date => i = j

SortedDesc(items) ==
  \A i, j \in 1..Len(items) : i < j => items[i].date >= items[j].date

DateSet(items) == {items[i].date : i \in 1..Len(items)}

\* C3 as stated: from an absent feed, after any sequence of upserts a feed
\* holds at most one item per date, and an upsert of a date already present
\* leaves that date with the text just written and the number of items
\* unchanged.
C3_UpsertReplaces ==
  /\ \A k \in 1..Len(FeedPaths) : NoDupDates(FeedItems(files, k))
  /\ roll.pc = "done" =>
       \A k \in 1..Len(FeedPaths) :
         LET pre == FeedItems(roll.pre, k)
             post == FeedItems(files, k)
         IN HasDate(pre, roll.date) =>
              /\ \E i \in 1..Len(post) :
                   post[i].date = roll.date /\ post[i].text = roll.text
              /\ Len(post) = Len(pre)

\* C3 amended: the replacement keeps the date and the count when the feed
\* held at most max(1, limit) items before the upsert.
C3_UpsertReplacesWithinLimit ==
  /\ \A k \in 1..Len(FeedPaths) : NoDupDates(FeedItems(files, k))
  /\ roll.pc = "done" =>
       \A k \in 1..Len(FeedPaths) :
         LET pre == FeedItems(roll.pre, k)
             post == FeedItems(files, k)
         IN (HasDate(pre, roll.date) /\ Len(pre) <= Max(1, roll.limit)) =>
              /\ \E i \in 1..Len(post) :
                   post[i].date = roll.date /\ post[i].text = roll.text
              /\ Len(post) = Len(pre)

\* A date present with another text is upserted into a feed of two items.
C3_Witness ==
  /\ roll.pc = "done"
  /\ LET pre == FeedItems(roll.pre, 1)
         post == FeedItems(files, 1)
     IN /\ Len(pre) = 2 /\ Len(post) = 2
        /\ \E i \in 1..2 : pre[i].date = roll.date /\ pre[i].text # roll.text
        /\ \E i \in 1..2 : post[i].date = roll.date /\ post[i].text = roll.text

\* The n largest members of a set of dates.
RECURSIVE Newest(_, _)
Newest(S, n) ==
  IF n <= 0 \/ S = {} THEN {}
  ELSE LET m == CHOOSE x \in S : \A y \in S : y <= x
       IN {m} \cup Newest(S \ {m}, n - 1)

Oldest(S) == CHOOSE x \in S : \A y \in S : x <= y

\* C4 as stated: after every upsert the items are sorted by date descending
\* and number at most max(1, limit); limit+1 distinct dates upserted into an
\* empty feed leave exactly limit items, the oldest date dropped.
C4_SortedTrimmedToLimit ==
  roll.pc = "done" =>
    \A k \in 1..Len(FeedPaths) :
      LET post == FeedItems(files, k)
      IN /\ SortedDesc(post)
         /\ Len(post) <= Max(1, roll.limit)
         /\ (hist.runs = "same" /\ Cardinality(hist.dates) = hist.limit + 1) =>
              /\ Len(post) = hist.limit
              /\ DateSet(post) = hist.dates \ {Oldest(hist.dates)}

\* C4 amended: the feed is left with exactly max(1, limit) items; with
\* limit >= 1 these are the limit newest dates, and in general, after
\* upserts that all used one limit, the max(1, limit) newest of the dates
\* upserted.
C4_SortedTrimmedToFlooredLimit ==
  roll.pc = "done" =>
    \A k \in 1..Len(FeedPaths) :
      LET post == FeedItems(files, k)
      IN /\ SortedDesc(post)
         /\ Len(post) <= Max(1, roll.limit)
         /\ hist.runs = "same" =>
              DateSet(post) = Newest(hist.dates, Max(1, hist.limit))
         /\ (hist.runs = "same" /\ Cardinality(hist.dates) = hist.limit + 1) =>
              /\ Len(post) = Max(1, hist.limit)
              /\ hist.limit >= 1 =>
                   DateSet(post) = hist.dates \ {Oldest(hist.dates)}

\* limit = 2 and the dates 1, 2, 3 upserted: the feed is [3, 2].
C4_Witness ==
  /\ roll.pc = "done"
  /\ hist.runs = "same" /\ hist.limit = 2 /\ hist.dates = {1, 2, 3}
  /\ roll.date = 3
  /\ \A k \in 1..Len(FeedPaths) :
       /\ Len(FeedItems(files, k)) = 2
       /\ FeedItems(files, k)[1].date = 3
       /\ FeedItems(files, k)[2].date = 2

\* ------------------------------------------------------------------
\* Claims about the feed store
\* ------------------------------------------------------------------
RollRunning == roll.pc \in {"open_tmp", "fill_tmp", "rename"}
ApRunning == ap.pc \in {"read", "open", "write", "appended"}

\* what a run of append_feed and write_latest means to leave at WritePaths[i]
ApTarget(i) ==
  IF i <= Len(FeedPaths) THEN AppendData(ap.pre[WritePaths[i]], ap.entry)
  ELSE EntryFile(ap.entry)

\* C5: every write to every target path, by the rolling writer, the log
\* writer and the latest writers, is atomic: at every point of a run, and
\* after a crash between its steps, a reader of a destination path sees the
\* complete previous content or the complete new content, never an empty or
\* partly written file.
C5_AtomicWrites ==
  /\ \A p \in DestPaths : files[p].k # "torn"
  /\ (RollRunning \/ roll.pc \in {"done", "crashed"}) =>
       \A i \in 1..Len(WritePaths) :
         files[WritePaths[i]] \in {roll.pre[WritePaths[i]], RollData(roll, i)}
  /\ (ApRunning \/ ap.pc \in {"done", "crashed"}) =>
       \A i \in 1..Len(WritePaths) :
         files[WritePaths[i]] \in {ap.pre[WritePaths[i]], ApTarget(i)}

\* C6: after a successful run all feed targets hold the same logical feed
\* (the same items in the same order), whatever they held before; for the
\* rolling upsert and for the log append.
C6_FanOutConsistent ==
  (roll.pc = "done" \/ ap.pc = "done") =>
    \A j, k \in 1..Len(FeedPaths) : FeedItems(files, j) = FeedItems(files, k)

IdCount(items, id) == Cardinality({i \in 1..Len(items) : items[i].id = id})

\* C7: the log feed is idempotent by entry id: after an append of an entry
\* whose id the feed already holds, no target holds two items with that id.
C7_IdempotentById ==
  ap.pc = "done" =>
    \A k \in 1..Len(FeedPaths) : IdCount(FeedItems(files, k), ap.entry.id) <= 1

\* what C8 reads about a finished log append, given the content a target of
\* no usable shape is left with
AppendedInFront(reset(_, _)) ==
  ap.pc = "done" =>
    \A k \in 1..Len(FeedPaths) :
      LET pre == ap.pre[FeedPaths[k]]
          post == files[FeedPaths[k]]
          isList == Parses(pre) /\ pre.k = "list"
          isFeed == Parses(pre) /\ pre.k = "obj" /\ pre.ival = "list"
      IN /\ Parses(post)
         /\ isList => post = ListFile(<<ap.entry>> \o pre.items)
         /\ isFeed => post = ObjFile("list", <<ap.entry>> \o pre.items,
                                     pre.extra, pre.upd)
         /\ ~(isList \/ isFeed) => post = reset(pre, ap.entry)

ResetToList(pre, entry) == ListFile(<<entry>>)

ResetKeepsObject(pre, entry) ==
  IF Parses(pre) /\ pre.k = "obj" /\ pre.ival # "missing"
    THEN ObjFile("list", <<entry>>, pre.extra, pre.upd)
    ELSE ListFile(<<entry>>)

NoFailingStep ==
  ap.pc \in {"idle", "read", "open", "write", "appended", "done", "crashed"}

C9_RollNeverAborts == roll.pc # "failed"

\* ------------------------------------------------------------------
\* Claims about the pipeline
\* ------------------------------------------------------------------

PipeOrder ==
  <<"snapshot", "status", "build", "query", "extract", "append", "latest">>

IsPrefix(s, t) == Len(s) <= Len(t) /\ \A i \in 1..Len(s) : s[i] = t[i]

Untouched == main.pc # "idle" => \A p \in DOMAIN files : files[p] = main.pre[p]

Exhausted == http.pc = "raised" /\ Len(http.log) = Max(http.retries + 1, 0)

\* C10: the steps of a run begin in the order snapshot, status check, topic
\* and prompt build, query, extraction, feed append, latest write, each at
\* most once; a run whose snapshot is empty or invalid, whose status check or
\* query used up its attempts, or whose response yields no text has failed at
\* that step and has modified no file; nothing is written before extraction
\* has given a text; a finished run has gone through all the steps.
C10_PipelineInOrder ==
  /\ IsPrefix(main.trace, PipeOrder)
  /\ Len(main.trace) < 6 => Untouched
  /\ main.pc = "failed" =>
       /\ Untouched
       /\ main.cause \in {"snapshot", "status", "query", "extract"}
  /\ main.snap \notin {"", "ok"} =>
       main.pc = "failed" /\ main.cause = "snapshot" /\ Len(main.trace) = 1
  /\ (main.pc = "failed" /\ main.cause = "status") =>
       Exhausted /\ Len(main.trace) = 2
  /\ (main.pc = "failed" /\ main.cause = "query") =>
       Exhausted /\ Len(main.trace) = 4
  /\ (http.pc = "raised" /\ Len(main.trace) >= 2) =>
       main.pc \in {"status_call", "query_call", "failed"}
  /\ (Len(main.trace) >= 5 /\ ExtractTweet(main.resp) = "") =>
       main.pc = "failed" /\ main.cause = "extract" /\ Len(main.trace) = 5
  /\ Len(main.trace) >= 6 =>
       /\ main.snap = "ok"
       /\ main.tweet = ExtractTweet(main.resp) /\ main.tweet # ""
       /\ ap.entry = TalkEntry(main.clock, main.tweet)
  /\ main.pc = "done" =>
       /\ main.trace = PipeOrder
       /\ \A k \in 1..Len(FeedPaths) : Head(FeedItems(files, k)) = ap.entry
       /\ files[LatestPath] = EntryFile(ap.entry)

\* A run over an existing feed whose query is answered, after a failed
\* attempt, by a response with no text: five steps begun, the run failed,
\* the feed as it was.
C10_Witness ==
  /\ main.pc = "failed" /\ main.cause = "extract"
  /\ main.trace = SubSeq(PipeOrder, 1, 5)
  /\ Len(http.log) = 2
  /\ files[FeedPaths[1]] = ObjFile("list", <<OldEntry>>, TRUE, 1)
  /\ Untouched

\* ------------------------------------------------------------------
\* Claims about the choice of chunks
\* ------------------------------------------------------------------

Chosen(p) == query.chunks[query.out[p]]

DistinctKeys(chunks) == { DedupKey(chunks[i]) : i \in 1..Len(chunks) }

\* C11: the chunks chosen have pairwise different dedup keys, each chunk is
\* chosen at most once, and their number is the smaller of want and the
\* number of different dedup keys among the chunks given.
C11_DistinctKeysUpToWant ==
  query.pc = "chosen" =>
    /\ \A p, q \in 1..Len(query.out) :
         p # q => /\ query.out[p] # query.out[q]
                  /\ DedupKey(Chosen(p)) # DedupKey(Chosen(q))
    /\ Len(query.out) = Min(query.want, Cardinality(DistinctKeys(query.chunks)))

\* Three chunks of two keys, the two of equal key by different kinds of key
\* (a file and a doc_id), and room for two: one chunk of each key is chosen.
C11_Witness ==
  /\ query.pc = "chosen"
  /\ Len(query.chunks) = 3 /\ query.want = 2
  /\ query.chunks[1].file = "A" /\ query.chunks[2].doc = "A"
  /\ Cardinality(DistinctKeys(query.chunks)) = 2
  /\ Len(query.out) = 2

\* C12: the chunks chosen are in non-decreasing order of distance; the chunk
\* chosen for a key is the one of smallest distance with that key and, among
\* those of that distance, the first of the chunks given.
C12_NearestFirstOfEachKey ==
  query.pc = "chosen" =>
    /\ \A p \in 1..Len(query.out) - 1 :
         Chosen(p).distance <= Chosen(p + 1).distance
    /\ \A p \in 1..Len(query.out) : \A j \in 1..Len(query.chunks) :
         DedupKey(query.chunks[j]) = DedupKey(Chosen(p)) =>
           \/ Chosen(p).distance < query.chunks[j].distance
           \/ Chosen(p).distance = query.chunks[j].distance /\ query.out[p] <= j

\* Keys A, A, B at distances 2, 1, 1 and room for two: the second A and the
\* B are chosen, the A first since it comes first among the distance-1 chunks.
C12_Witness ==
  /\ query.pc = "chosen"
  /\ query.want = 2
  /\ Len(query.chunks) = 3
  /\ <<DedupKey(query.chunks[1]), DedupKey(query.chunks[2]), DedupKey(query.chunks[3])>>
       = <<"A", "A", "B">>
  /\ <<query.chunks[1].distance, query.chunks[2].distance, query.chunks[3].distance>>
       = <<2, 1, 1>>
  /\ query.out = <<2, 3>>

\* ------------------------------------------------------------------
\* Claims about the greeting
\* ------------------------------------------------------------------

\* the decision table, first match wins
TableGreeting(md, hour) ==
  IF md = <<12, 24>> THEN "christmas eve"
  ELSE IF md = <<12, 25>> THEN "christmas"
  ELSE IF md = <<12, 31>> THEN "new year's eve"
  ELSE IF md[1] = 1 /\ md[2] \in 1..4 THEN "new year"
  ELSE IF hour \in 5..10 THEN "morning"
  ELSE IF hour \in 11..16 THEN "afternoon"
  ELSE IF hour \in 17..21 THEN "evening"
  ELSE "night"

\* the names each prompt uses for the greetings of the table
TableName(g) ==
  CASE g \in {"Merry Christmas Eve"} -> "christmas eve"
    [] g \in {"Merry Christmas"} -> "christmas"
    [] g \in {"Happy New Year's Eve", "New Year's Eve"} -> "new year's eve"
    [] g \in {"Happy New Year", "New Year's Day"} -> "new year"
    [] g \in {"Good morning", "morning"} -> "morning"
    [] g \in {"Good afternoon", "midday"} -> "afternoon"
    [] g \in {"Good evening", "evening"} -> "evening"
    [] g \in {"Good night", "night"} -> "night"

\* C13: for every local date and hour, the greeting that the rules of the
\* backend system prompt fix, and the greeting that the rules of the
\* question fix, is the one of the decision table.
C13_GreetingTable ==
  /\ greet.backend # "" =>
       TableName(greet.backend) = TableGreeting(greet.md, greet.hour)
  /\ greet.question # "" =>
       TableName(greet.question) = TableGreeting(greet.md, greet.hour)

\* ------------------------------------------------------------------
\* Claims about the topic
\* ------------------------------------------------------------------

SameHour(a, b) == a.day = b.day /\ a.hour = b.hour

\* C14: two calls of pick_topic at local times of the same date and hour
\* return the same family and mode, whatever the minutes and the snapshots.
C14_SameHourSameTopic ==
  (topic.pc = "twice" /\ SameHour(topic.prev.at, topic.last.at)) =>
    /\ topic.last.family = topic.prev.family
    /\ topic.last.mode = topic.prev.mode

\* Two calls in one hour, at minute 0 and at minute 30, that gave tips.
C14_Witness ==
  /\ topic.pc = "twice"
  /\ SameHour(topic.prev.at, topic.last.at)
  /\ topic.prev.at.minute = 0 /\ topic.last.at.minute = 30
  /\ topic.last.family = "tips" /\ topic.prev.family = "tips"

Members(seq) == { seq[i] : i \in 1..Len(seq) }

PracticalAdvice == {"tips"}

\* C15: for a family of practical advice the mode is chosen among three of
\* the four modes, for every other family among all four.
C15_PracticalModesNarrowed ==
  topic.pc # "idle" =>
    /\ Members(topic.last.modes) \subseteq Members(TopicModes)
    /\ topic.last.mode \in Members(topic.last.modes)
    /\ Cardinality(Members(topic.last.modes)) =
         (IF topic.last.family \in PracticalAdvice THEN 3 ELSE 4)

IsPermutation(seq, of) ==
  /\ Len(seq) = Len(of)
  /\ Members(seq) = Members(of)
  /\ Cardinality(Members(seq)) = Len(seq)

\* C20: the four bands of hours are pairwise disjoint and cover the hours of
\* the day; at every call the list of candidates is the one of the band of
\* the hour and is a permutation of the 8 families, so that each family is
\* the choice for some number the generator can give, and every choice is one
\* of the 8 families.
C20_BandsPermuteFamilies ==
  /\ \A a, b \in 1..4 : a # b => TopicBands[a] \cap TopicBands[b] = {}
  /\ UNION { TopicBands[b] : b \in 1..4 } = Hours
  /\ Cardinality(Members(TopicFamilies)) = 8
  /\ topic.pc # "idle" =>
       /\ \E b \in 1..4 :
            /\ topic.last.at.hour \in TopicBands[b]
            /\ \A h \in TopicBands[b] : FamiliesAt(h) = topic.last.families
       /\ IsPermutation(topic.last.families, TopicFamilies)
       /\ \A f \in Members(TopicFamilies) :
            \E r \in 0..7 : Choice(topic.last.families, r) = f
       /\ \A r \in 0..7 : Choice(topic.last.families, r) \in Members(TopicFamilies)
       /\ topic.last.family \in Members(TopicFamilies)

\* A call at 23:00 that returned the last member of its band's list.
C20_Witness ==
  /\ topic.pc = "once"
  /\ topic.last.at.hour = 23
  /\ topic.last.families[8] = "running"
  /\ topic.last.family = "running"

\* ------------------------------------------------------------------
\* Claims about the post-processor
\* ------------------------------------------------------------------

\* C16: finalizing the result of finalize again, with the same positive
\* limit, gives that result.
C16_FinalizeIdempotent ==
  (fin.pc = "again" /\ fin.max > 0) => fin.again = fin.final

\* the text that reaches the length enforcement inside finalize
Cleaned == StripWrappingQuotes(CleanSingleLine(fin.text))

\* the places up to n where a word of t ends, a space following it
WordEnds(t, n) == { p \in 1..n : t[p] # " " /\ p < Len(t) /\ t[p + 1] = " " }

\* C17: when the text is longer than the limit, the result is the whole
\* leading words that fit in limit - 1 characters, a word ending exactly at
\* that cut included, followed by one ellipsis; a word is cut only when the
\* first limit - 1 characters hold no space.
C17_TruncatesAtWordBoundary ==
  (fin.pc \in {"finalized", "again"} /\ fin.max > 0 /\ Len(Cleaned) > fin.max) =>
    LET ends == WordEnds(Cleaned, fin.max - 1)
        keep == IF ends # {}
                  THEN CHOOSE p \in ends : \A q \in ends : q <= p
                  ELSE fin.max - 1
    IN fin.final = SubSeq(Cleaned, 1, keep) \o <<Ellipsis>>

\* C18: for a positive limit the result of _enforce_max_chars has at most
\* that many characters and is the text itself when the text fits; for a
\* limit of zero or less the result is the text itself.
C18_LengthBound ==
  fin.pc # "given" =>
    /\ fin.max > 0 => Len(fin.enforced) <= fin.max
    /\ (fin.max <= 0 \/ Len(fin.text) <= fin.max) => fin.enforced = fin.text

\* Five characters and a limit of four: the first word and the ellipsis.
C18_Witness ==
  /\ fin.pc = "enforced"
  /\ fin.text = <<"a", " ", "a", "a", "a">> /\ fin.max = 4
  /\ fin.enforced = <<"a", Ellipsis>>

\* C19: when the trimmed text has a matching pair of quotes at its ends, the
\* result is the trimmed text without that one pair (and trimmed again),
\* also when what is left is wrapped in quotes of another kind; otherwise
\* the result is the trimmed text.
C19_StripsOneLayer ==
  fin.pc \in {"stripped", "finalized", "again"} =>
    LET t == Strip(fin.text)
    IN IF \E i \in 1..Len(QuotePairs) : Wrapped(t, QuotePairs[i])
         THEN fin.stripped = Strip(SubSeq(t, 2, Len(t) - 1))
         ELSE fin.stripped = t

\* ------------------------------------------------------------------
\* Claims about the latest pointer of the rolling feed
\* ------------------------------------------------------------------

\* the items of the feed a run loaded that are later than the date it upserts
LaterLoaded ==
  LET loaded == ItemsOf(FirstLoaded(roll.pre, 1))
  IN { i \in 1..Len(loaded) : loaded[i].date > roll.date }

IsItem(items, x) == \E i \in 1..Len(items) : items[i] = x

\* C22 as stated: after a successful rolling upsert the entry in the latest
\* file is an item of every feed target, and the first one.
C22_LatestIsNewestItem ==
  roll.pc = "done" =>
    /\ files[LatestPath] = EntryFile(roll.entry)
    /\ \A k \in 1..Len(FeedPaths) :
         /\ FeedItems(files, k) # <<>>
         /\ Head(FeedItems(files, k)) = roll.entry

\* C22, amended: after a successful rolling upsert the latest file holds the
\* entry just upserted; that entry is the first item of every feed target
\* exactly when the feed loaded held no item of a later date, and is an item
\* of every feed target exactly when the feed loaded held fewer than
\* max(1, limit) items of a later date; the feed is never left empty.
C22_LatestIsEntryUpserted ==
  roll.pc = "done" =>
    /\ files[LatestPath] = EntryFile(roll.entry)
    /\ \A k \in 1..Len(FeedPaths) :
         LET items == FeedItems(files, k)
         IN /\ items # <<>>
            /\ Head(items) = roll.entry <=> LaterLoaded = {}
            /\ IsItem(items, roll.entry) <=>
                 Cardinality(LaterLoaded) < Max(1, roll.limit)

\* Date 1 upserted with limit 1 into a feed that holds date 3: the feed
\* still holds date 3 alone, the latest file the entry of date 1.
C22_Witness ==
  /\ roll.pc = "done"
  /\ roll.date = 1 /\ roll.limit = 1
  /\ files[LatestPath] = EntryFile(roll.entry)
  /\ \A k \in 1..Len(FeedPaths) :
       /\ Len(FeedItems(files, k)) = 1
       /\ FeedItems(files, k)[1].date = 3

\* ------------------------------------------------------------------
\* Claims about runs at the same time
\* ------------------------------------------------------------------

\* a run has started and the other has not
Alone(p) == race[p].pc # "idle" /\ race[OtherRacer(p)].pc = "idle"

\* the dates later than d among items
LaterThan(items, d) == { i \in 1..Len(items) : items[i].date > d }

\* the run of p cut its own date off: the feed it loaded held max(1, limit)
\* items or more of a later date
CutByOwnLimit(p) ==
  Cardinality(LaterThan(ItemsOf(FirstLoaded(race[p].pre, 1)), race[p].date))
    >= Max(1, race[p].limit)

\* the feed left by run q is full, of items all later than d
CutByLimitOf(q, items, d) ==
  /\ Len(items) = Max(1, race[q].limit)
  /\ \A i \in 1..Len(items) : items[i].date > d

Serialized ==
  /\ \A p \in Racers : race[p].pc = "done" /\ ~race[p].overlapped
  /\ \E p \in Racers : race[p].first /\ ~race[OtherRacer(p)].first

\* C21: while one run alone is under way, finished or killed, every
\* destination holds what it held when the run started or what the run
\* writes to it, whole; after two runs one after the other, each date
\* upserted is in every feed unless a cut to max(1, limit) removed it (the
\* cut of its own run, or the cut of the later run).
C21_CrashSafeAndSerializable ==
  /\ \A p \in Racers : Alone(p) =>
       \A k \in 1..Len(WritePaths) :
         \/ files[WritePaths[k]] = race[p].pre[WritePaths[k]]
         \/ /\ race[p].pc # "failed"
            /\ files[WritePaths[k]] = RollData(race[p], k)
  /\ Serialized =>
       \A p \in Racers : \A k \in 1..Len(FeedPaths) :
         LET items == FeedItems(files, k)
             later == IF race[p].first THEN OtherRacer(p) ELSE p
         IN \/ HasDate(items, race[p].date)
            \/ CutByOwnLimit(p)
            \/ CutByLimitOf(later, items, race[p].date)

\* Two runs for dates 2 and 3 with limit 2 on an absent feed, the second
\* started before the first had written: both finish, and every feed holds
\* one item, the date of the other run missing though the limit had room.
C21_Witness ==
  /\ \A p \in Racers : race[p].pc = "done" /\ race[p].overlapped
  /\ race[1].date = 2 /\ race[2].date = 3
  /\ race[1].limit = 2 /\ race[2].limit = 2
  /\ race[1].pre[FeedPaths[1]] = Absent /\ race[2].pre[FeedPaths[1]] = Absent
  /\ \A k \in 1..Len(FeedPaths) :
       /\ Len(FeedItems(files, k)) = 1
       /\ \E p \in Racers : ~HasDate(FeedItems(files, k), race[p].date)

====
